---- MODULE Spec2Model ----
(***************************************************************************)
(* Model of the "gcp create-wif-config" and "gcp update wif-config"        *)
(* commands of ocm-cli (cmd/ocm/gcp).                                      *)
(*                                                                         *)
(* The create command obtains a WIF configuration from the backend and     *)
(* then drives the cloud account through three steps: workload identity    *)
(* pool, workload identity provider, service accounts (two passes).        *)
(* Every cloud call is one step of the model: the call is issued, the      *)
(* cloud answers (nondeterministically, within what the cloud state        *)
(* allows) and the code branches on the answer.                            *)
(***************************************************************************)
EXTENDS Integers, Sequences, FiniteSets, TLC

VARIABLES
    cfg,          \* the WifConfigOutput the backend returns (service accounts)
    cloud,        \* the live IAM state of the cloud project
    cloud0,       \* the cloud state when the current run started
    run,          \* "none", "first" or "second": which run of the command
    prev,         \* outcome and dry-run flag of the previous run
    dryRun,       \* CreateWorkloadIdentityConfigurationOpts.DryRun of this run
    pc,           \* position of the current run
    i,            \* index of the service account being processed
    j,            \* index of the role being processed (pass 2)
    calls,        \* cloud calls of the current run, with their answers
    backendCalls, \* backend CreateWifConfig calls of the current run
    steps,        \* the steps (functions) the current run has entered
    logs,         \* messages printed by the current run
    outcome,      \* how the current run ended ("running" until then)
    store,        \* update command: WIF configurations held by the backend
    key,          \* update command: argv[0]
    upc,          \* update command: position
    found,        \* update command: result of findWifConfig
    updates,      \* update command: Update requests sent to the backend
    uresult       \* update command: returned error

vars == <<cfg, cloud, cloud0, run, prev, dryRun, pc, i, j, calls, backendCalls,
          steps, logs, outcome, store, key, upc, found, updates, uresult>>

createVars == <<cfg, cloud, cloud0, run, prev, dryRun, pc, i, j, calls,
                backendCalls, steps, logs, outcome>>

updateVars == <<store, key, upc, found, updates, uresult>>

(***************************************************************************)
(* Bounds                                                                  *)
(***************************************************************************)
MaxAccounts == 2

(***************************************************************************)
(* Strings: messages are sequences of words; strings.Contains is the       *)
(* contiguous-subsequence test.                                            *)
(***************************************************************************)
Contains(s, sub) ==
    \E k \in 0..(Len(s) - Len(sub)) :
        \A n \in 1..Len(sub) : s[k + n] = sub[n]

NotFoundMsg == <<"Requested", "entity", "was", "not", "found">>

(***************************************************************************)
(* Errors returned by the cloud client.                                    *)
(***************************************************************************)
NoError == [kind |-> "none", code |-> 0, grpc |-> "OK", msg |-> <<>>]

GoogleApiError(code, msg) ==
    [kind |-> "googleapi", code |-> code, grpc |-> "", msg |-> msg]

ApiError(grpc) ==
    [kind |-> "apierror", code |-> 0, grpc |-> grpc, msg |-> <<>>]

OtherError(msg) ==
    [kind |-> "other", code |-> 0, grpc |-> "", msg |-> msg]

EntityNotFound == GoogleApiError(404, NotFoundMsg \o <<".">>)

ProbeErrors ==
    { EntityNotFound,
      GoogleApiError(404, <<"Method", "not", "found">>),
      GoogleApiError(403, <<"Permission", "denied">>),
      GoogleApiError(500, NotFoundMsg),
      OtherError(NotFoundMsg),
      OtherError(<<"connection", "reset">>) }

CallFailed == GoogleApiError(409, <<"Conflict">>)

(***************************************************************************)
(* Program constants.                                                      *)
(***************************************************************************)
impersonatorServiceAccount ==
    "projects/sda-ccs-3/serviceAccounts/osd-impersonator@sda-ccs-3.iam.gserviceaccount.com"

DisplayName == "wif1"

PoolId == "pool1"

poolDescription == "Created by the OCM CLI"

openShiftAudience == "openshift"

\* Trust material of the configuration (WorkloadIdentityPoolData).
IssuerUrl == "https://issuer.example/wif1"

Jwks == "jwks-wif1"

\* An issuer other than the configuration's, held by a provider created earlier.
OtherIssuerUrl == "https://issuer.example/old"

(***************************************************************************)
(* The configurations the backend may return: an ordered list of service   *)
(* accounts with distinct ids, each with a list of roles and an access     *)
(* method.  "federate" is an access method the switch of                   *)
(* createServiceAccounts has no case for.                                  *)
(***************************************************************************)
RoleViewer == [id |-> "viewer", predefined |-> TRUE]
RoleEditor == [id |-> "editor", predefined |-> TRUE]
RoleCustom == [id |-> "custom", predefined |-> FALSE]

RoleLists == { <<>>, <<RoleViewer>>, <<RoleViewer, RoleCustom, RoleEditor>> }

AccessMethods == {"impersonate", "wif", "federate"}

AccountIds == <<"sa1", "sa2", "sa3", "sa4">>

ServiceAccountLists ==
    UNION { { [k \in 1..n |-> [id |-> AccountIds[k],
                               roles |-> f[k][1],
                               accessMethod |-> f[k][2]]] :
              f \in [1..n -> RoleLists \X AccessMethods] } :
            n \in 0..MaxAccounts }

ServiceAccounts == cfg

fmtRoleResourceId(role) == "roles/" \o role.id

(***************************************************************************)
(* The cloud account.  A read answers with the resource's state or with    *)
(* an error; a 404 "entity not found" for a resource that exists is a      *)
(* stale read.  A mutation succeeds only where the cloud state allows it   *)
(* and may always fail.                                                    *)
(***************************************************************************)
ResourceStates == {"ABSENT", "ACTIVE", "DELETED"}

Response(err, state) == [err |-> err, state |-> state]

GetWorkloadIdentityPool(c) ==
    { Response(e, "") : e \in ProbeErrors }
        \cup (IF c.pool = "ABSENT" THEN {} ELSE { Response(NoError, c.pool) })

GetWorkloadIdentityProvider(c) ==
    { Response(e, "") : e \in ProbeErrors }
        \cup (IF c.provider = "ABSENT" THEN {} ELSE { Response(NoError, c.provider) })

CreateWorkloadIdentityPool(c) ==
    { Response(CallFailed, "") }
        \cup (IF c.pool = "ABSENT"
                 THEN { Response(NoError, "ACTIVE") }
                 ELSE { Response(ApiError("AlreadyExists"), "") })

UndeleteWorkloadIdentityPool(c) ==
    { Response(CallFailed, "") }
        \cup (IF c.pool = "DELETED" THEN { Response(NoError, "ACTIVE") } ELSE {})

CreateWorkloadIdentityProvider(c) ==
    { Response(CallFailed, "") }
        \cup (IF c.provider = "ABSENT"
                 THEN { Response(NoError, "ACTIVE") }
                 ELSE { Response(ApiError("AlreadyExists"), "") })

ClientCreateServiceAccount(c, acct) ==
    { Response(ApiError("PermissionDenied"), ""),
      Response(OtherError(<<"AlreadyExists">>), "") }
        \cup (IF acct \in c.accounts
                 THEN { Response(ApiError("AlreadyExists"), "") }
                 ELSE { Response(NoError, "") })

BindRole(c, acct) ==
    { Response(CallFailed, "") }
        \cup (IF acct \in c.accounts THEN { Response(NoError, "") } ELSE {})

AttachImpersonator(c, acct) ==
    { Response(CallFailed, "") }
        \cup (IF acct \in c.accounts THEN { Response(NoError, "") } ELSE {})

AttachWorkloadIdentityPool(c, acct) ==
    { Response(CallFailed, "") }
        \cup (IF acct \in c.accounts THEN { Response(NoError, "") } ELSE {})

(***************************************************************************)
(* Records of what a run did.                                              *)
(***************************************************************************)
NoBody == [none |-> TRUE]

\* A call with the resource it sends.
CallWith(op, acct, arg, body, r) ==
    [op |-> op, acct |-> acct, arg |-> arg, err |-> r.err, state |-> r.state,
     body |-> body]

Call(op, acct, arg, r) == CallWith(op, acct, arg, NoBody, r)

\* The pool sent by CreateWorkloadIdentityPool, lines 168-174.
PoolBody ==
    [Name |-> PoolId, DisplayName |-> PoolId, Description |-> poolDescription,
     State |-> "ACTIVE", Disabled |-> FALSE]

\* The provider sent by CreateWorkloadIdentityProvider, lines 207-225.
ProviderBody ==
    [Name |-> PoolId, DisplayName |-> PoolId, Description |-> poolDescription,
     State |-> "ACTIVE", Disabled |-> FALSE,
     Oidc |-> [AllowedAudiences |-> <<openShiftAudience>>,
               IssuerUri |-> IssuerUrl,
               JwksJson |-> Jwks],
     AttributeMapping |-> {<<"google.subject", "assertion.sub">>}]

Log(msg, acct, arg) == [msg |-> msg, acct |-> acct, arg |-> arg]

Outcome(kind, step, why) == [kind |-> kind, step |-> step, why |-> why]

Running == Outcome("running", "", "")
Success == Outcome("ok", "", "")
NoRun   == Outcome("none", "", "")

(***************************************************************************)
(* Initial state: any configuration, any state of the pool and provider,   *)
(* no command run yet.                                                     *)
(***************************************************************************)
UpdateIdle ==
    /\ store = {}
    /\ key = ""
    /\ upc = "off"
    /\ found = ""
    /\ updates = <<>>
    /\ uresult = "none"

Init ==
    /\ cfg \in ServiceAccountLists
    /\ \E p \in ResourceStates, q \in ResourceStates :
          \E u \in (CASE q = "ABSENT" -> {""}
                      [] q = "ACTIVE" -> {IssuerUrl, OtherIssuerUrl}
                      [] OTHER -> {IssuerUrl}) :
             cloud = [pool |-> p, provider |-> q, issuer |-> u, accounts |-> {},
                      bindings |-> {}, grants |-> {}]
    /\ cloud0 = cloud
    /\ run = "none"
    /\ prev = [outcome |-> NoRun, dryRun |-> FALSE]
    /\ dryRun = FALSE
    /\ pc = "idle"
    /\ i = 0
    /\ j = 0
    /\ calls = <<>>
    /\ backendCalls = 0
    /\ steps = <<>>
    /\ logs = <<>>
    /\ outcome = NoRun
    /\ UpdateIdle

(***************************************************************************)
(* createWorkloadIdentityConfigurationCmd                                  *)
(***************************************************************************)
Finish(o) ==
    /\ pc' = "idle"
    /\ outcome' = o

\* Variant: a dry run goes to the pool step without the backend call.
ClientReady_NoBackendInDryRun ==
    /\ pc' = (IF dryRun' THEN "pool" ELSE "backend")
    /\ outcome' = Running

\* The cloud client is there: the backend call of lines 73-77 comes next,
\* whatever the dry-run flag.
ClientReady ==
    /\ pc' = "backend"
    /\ outcome' = Running

\* The command is started (again): gcp.NewGcpClient, lines 65-72.
Start ==
    /\ pc = "idle"
    /\ run \in {"none", "first"}
    /\ run' = IF run = "none" THEN "first" ELSE "second"
    /\ prev' = [outcome |-> outcome, dryRun |-> dryRun]
    /\ cloud0' = cloud
    /\ dryRun' \in BOOLEAN
    /\ calls' = <<>>
    /\ backendCalls' = 0
    /\ steps' = <<>>
    /\ logs' = <<>>
    /\ i' = 0
    /\ j' = 0
    /\ \E clientOk \in BOOLEAN :
          IF clientOk
             THEN ClientReady
             ELSE Finish(Outcome("fatal", "client", "init"))
    /\ UNCHANGED <<cfg, cloud>>
    /\ UNCHANGED updateVars

\* createWorkloadIdentityConfiguration, lines 137-147: the backend client is
\* made, then CreateWifConfig is called and returns the configuration.
CreateWifConfig ==
    /\ pc = "backend"
    /\ \E ocmClientOk \in BOOLEAN, ok \in BOOLEAN :
          IF ~ocmClientOk
             THEN /\ backendCalls' = backendCalls
                  /\ Finish(Outcome("fatal", "backend", "client"))
             ELSE /\ backendCalls' = backendCalls + 1
                  /\ IF ok
                        THEN pc' = "pool" /\ outcome' = outcome
                        ELSE Finish(Outcome("fatal", "backend", "create"))
    /\ UNCHANGED <<cfg, cloud, cloud0, run, prev, dryRun, i, j, calls, steps, logs>>
    /\ UNCHANGED updateVars

\* Variant: the dry-run flag is not passed on.
generateOnly_Ignored == FALSE

\* The generateOnly argument of the three steps (lines 91, 95, 99).
generateOnly == dryRun

(***************************************************************************)
(* createWorkloadIdentityPool                                              *)
(***************************************************************************)
\* Variant: any 404 means the pool is absent.
PoolNotFound_Any404(err) ==
    /\ err.kind = "googleapi"
    /\ err.code = 404

PoolNotFound(err) ==
    /\ err.kind = "googleapi"
    /\ err.code = 404
    /\ Contains(err.msg, NotFoundMsg)

\* Variant: a pool that is not found is taken to exist.
PoolBranch_NotFoundSkips(r) ==
    IF r.err # NoError
       THEN IF PoolNotFound(r.err) THEN "skip" ELSE "error"
       ELSE IF r.state = "DELETED" THEN "undelete" ELSE "skip"

\* Variant: the DELETED state is not looked at.
PoolBranch_DeletedSkips(r) ==
    IF r.err # NoError
       THEN IF PoolNotFound(r.err) THEN "create" ELSE "error"
       ELSE "skip"

\* The switch of lines 165-195 on (resp, err).
PoolBranch(r) ==
    IF r.err # NoError
       THEN IF PoolNotFound(r.err) THEN "create" ELSE "error"
       ELSE IF r.state = "DELETED" THEN "undelete" ELSE "skip"

PoolProbe ==
    /\ pc = "pool"
    /\ steps' = Append(steps, "pool")
    /\ IF generateOnly
          THEN /\ logs' = Append(logs, Log("would_create_pool", PoolId, ""))
               /\ pc' = "provider"
               /\ UNCHANGED <<calls, outcome>>
          ELSE \E r \in GetWorkloadIdentityPool(cloud) :
                 /\ calls' = Append(calls, Call("getPool", PoolId, "", r))
                 /\ CASE PoolBranch(r) = "create" ->
                           /\ pc' = "pool_create"
                           /\ UNCHANGED <<logs, outcome>>
                      [] PoolBranch(r) = "error" ->
                           /\ Finish(Outcome("fatal", "pool", "check"))
                           /\ UNCHANGED logs
                      [] PoolBranch(r) = "undelete" ->
                           /\ logs' = Append(logs, Log("pool_was_deleted", PoolId, ""))
                           /\ pc' = "pool_undelete"
                           /\ UNCHANGED outcome
                      [] OTHER ->
                           /\ logs' = Append(logs, Log("pool_exists", PoolId, ""))
                           /\ pc' = "provider"
                           /\ UNCHANGED outcome
    /\ UNCHANGED <<cfg, cloud, cloud0, run, prev, dryRun, i, j, backendCalls>>
    /\ UNCHANGED updateVars

\* Variant: an already-exists answer to a create counts as success.
CreateFailed_ToleratesExisting(err) ==
    err # NoError /\ err # ApiError("AlreadyExists")

\* The test of lines 177 and 228 on the error of a create call.
CreateFailed(err) == err # NoError

PoolCreate ==
    /\ pc = "pool_create"
    /\ \E r \in CreateWorkloadIdentityPool(cloud) :
          /\ calls' = Append(calls, CallWith("createPool", PoolId, "ACTIVE", PoolBody, r))
          /\ IF CreateFailed(r.err)
                THEN /\ Finish(Outcome("fatal", "pool", "create"))
                     /\ UNCHANGED <<cloud, logs>>
                ELSE /\ cloud' = [cloud EXCEPT !.pool = "ACTIVE"]
                     /\ logs' = Append(logs, Log("pool_created", PoolId, ""))
                     /\ pc' = "provider"
                     /\ UNCHANGED outcome
    /\ UNCHANGED <<cfg, cloud0, run, prev, dryRun, i, j, backendCalls, steps>>
    /\ UNCHANGED updateVars

PoolUndelete ==
    /\ pc = "pool_undelete"
    /\ \E r \in UndeleteWorkloadIdentityPool(cloud) :
          /\ calls' = Append(calls, Call("undeletePool", PoolId, "", r))
          /\ IF r.err # NoError
                THEN /\ Finish(Outcome("fatal", "pool", "undelete"))
                     /\ UNCHANGED cloud
                ELSE /\ cloud' = [cloud EXCEPT !.pool = "ACTIVE"]
                     /\ pc' = "provider"
                     /\ UNCHANGED outcome
    /\ UNCHANGED <<cfg, cloud0, run, prev, dryRun, i, j, backendCalls, steps, logs>>
    /\ UNCHANGED updateVars

(***************************************************************************)
(* createWorkloadIdentityProvider                                          *)
(***************************************************************************)
ProviderNotFound(err) ==
    /\ err.kind = "googleapi"
    /\ err.code = 404
    /\ Contains(err.msg, NotFoundMsg)

\* Variant: the provider is created whether or not it was read.
ProviderBranch_AlwaysCreate(r) ==
    IF r.err # NoError
       THEN IF ProviderNotFound(r.err) THEN "create" ELSE "error"
       ELSE "create"

\* Variant: a provider read in state DELETED is created again.
ProviderBranch_DeletedCreates(r) ==
    IF r.err # NoError
       THEN IF ProviderNotFound(r.err) THEN "create" ELSE "error"
       ELSE IF r.state = "DELETED" THEN "create" ELSE "skip"

\* The branches of lines 205-237 on err.
ProviderBranch(r) ==
    IF r.err # NoError
       THEN IF ProviderNotFound(r.err) THEN "create" ELSE "error"
       ELSE "skip"

ProviderProbe ==
    /\ pc = "provider"
    /\ steps' = Append(steps, "provider")
    /\ IF generateOnly
          THEN /\ logs' = Append(logs, Log("would_create_provider", PoolId, ""))
               /\ pc' = "sa"
               /\ UNCHANGED <<calls, outcome>>
          ELSE \E r \in GetWorkloadIdentityProvider(cloud) :
                 /\ calls' = Append(calls, Call("getProvider", PoolId, "", r))
                 /\ CASE ProviderBranch(r) = "create" ->
                           /\ pc' = "provider_create"
                           /\ UNCHANGED <<logs, outcome>>
                      [] ProviderBranch(r) = "error" ->
                           /\ Finish(Outcome("fatal", "provider", "check"))
                           /\ UNCHANGED logs
                      [] OTHER ->
                           /\ logs' = Append(logs, Log("provider_exists", PoolId, ""))
                           /\ pc' = "sa"
                           /\ UNCHANGED outcome
    /\ UNCHANGED <<cfg, cloud, cloud0, run, prev, dryRun, i, j, backendCalls>>
    /\ UNCHANGED updateVars

ProviderCreate ==
    /\ pc = "provider_create"
    /\ \E r \in CreateWorkloadIdentityProvider(cloud) :
          /\ calls' = Append(calls,
                CallWith("createProvider", PoolId, "ACTIVE", ProviderBody, r))
          /\ IF CreateFailed(r.err)
                THEN /\ Finish(Outcome("fatal", "provider", "create"))
                     /\ UNCHANGED <<cloud, logs>>
                ELSE /\ cloud' = [cloud EXCEPT !.provider = "ACTIVE",
                                                !.issuer = ProviderBody.Oidc.IssuerUri]
                     /\ logs' = Append(logs, Log("provider_created", PoolId, ""))
                     /\ pc' = "sa"
                     /\ UNCHANGED outcome
    /\ UNCHANGED <<cfg, cloud0, run, prev, dryRun, i, j, backendCalls, steps>>
    /\ UNCHANGED updateVars

(***************************************************************************)
(* createServiceAccounts                                                   *)
(***************************************************************************)
RECURSIVE DryRunLogs_CloudAware(_)
\* Variant: the dry run reports a creation only for an account the cloud
\* does not hold.
DryRunLogs_CloudAware(k) ==
    IF k > Len(ServiceAccounts)
       THEN <<>>
       ELSE LET sa == ServiceAccounts[k]
            IN  (IF sa.id \in cloud.accounts
                    THEN <<>>
                    ELSE << Log("would_create_sa", sa.id, "") >>)
                \o << Log("would_bind_roles", sa.id, ""),
                      CASE sa.accessMethod = "impersonate" ->
                               Log("would_attach_impersonator", sa.id, impersonatorServiceAccount)
                        [] sa.accessMethod = "wif" ->
                               Log("would_attach_pool", sa.id, PoolId)
                        [] OTHER ->
                               Log("warn_access_type", sa.id, sa.accessMethod) >>
                \o DryRunLogs_CloudAware(k + 1)

RECURSIVE DryRunLogs(_)
\* The messages of the generateOnly loop (lines 247-259) for accounts k.. .
DryRunLogs(k) ==
    IF k > Len(ServiceAccounts)
       THEN <<>>
       ELSE LET sa == ServiceAccounts[k]
            IN  << Log("would_create_sa", sa.id, ""),
                   Log("would_bind_roles", sa.id, ""),
                   CASE sa.accessMethod = "impersonate" ->
                            Log("would_attach_impersonator", sa.id, impersonatorServiceAccount)
                     [] sa.accessMethod = "wif" ->
                            Log("would_attach_pool", sa.id, PoolId)
                     [] OTHER ->
                            Log("warn_access_type", sa.id, sa.accessMethod) >>
                \o DryRunLogs(k + 1)

\* Pass 2 moves to account k, or the function returns nil after the last one.
EnterAccount(k) ==
    IF k > Len(ServiceAccounts)
       THEN /\ Finish(Success)
            /\ UNCHANGED <<i, j>>
       ELSE /\ i' = k
            /\ j' = 1
            /\ pc' = IF Len(ServiceAccounts[k].roles) = 0 THEN "sa_attach" ELSE "sa_bind"
            /\ UNCHANGED outcome

\* Variant: the attach follows the first role.
AfterRole_AttachFirst ==
    /\ j' = j + 1
    /\ pc' = "sa_attach"
    /\ UNCHANGED <<i, outcome>>

\* The role loop moves past role j of account i.
AfterRole ==
    /\ j' = j + 1
    /\ pc' = IF j + 1 > Len(ServiceAccounts[i].roles) THEN "sa_attach" ELSE "sa_bind"
    /\ UNCHANGED <<i, outcome>>

SAStep ==
    /\ pc = "sa"
    /\ steps' = Append(steps, "sa")
    /\ IF generateOnly
          THEN /\ logs' = logs \o DryRunLogs(1)
               /\ Finish(Success)
               /\ UNCHANGED <<i, j>>
          ELSE /\ logs' = logs
               /\ IF Len(ServiceAccounts) = 0
                     THEN Finish(Success) /\ UNCHANGED <<i, j>>
                     ELSE pc' = "sa_create" /\ i' = 1 /\ j' = 0 /\ UNCHANGED outcome
    /\ UNCHANGED <<cfg, cloud, cloud0, run, prev, dryRun, calls, backendCalls>>
    /\ UNCHANGED updateVars

\* Variant: no error of the client is returned to the caller.
CreateServiceAccountErr_SwallowsAll(err, allowExisting) == NoError

\* Variant: an existing account is an error like any other.
CreateServiceAccountErr_NoTolerance(err, allowExisting) == err

\* CreateServiceAccount (lines 313-332): the error it returns for the client's error.
CreateServiceAccountErr(err, allowExisting) ==
    IF err # NoError /\ err.kind = "apierror" /\ err.grpc = "AlreadyExists" /\ allowExisting
       THEN NoError
       ELSE err

\* Variant: the account identifier carries the display name.
serviceAccountID_Prefixed(sa) == DisplayName \o "-" \o sa.id

\* The AccountId of the request, lines 264 and 316.
serviceAccountID(sa) == sa.id

\* Variant: the account is named by its id alone.
serviceAccountName_IdOnly(sa) == sa.id

\* The display name given to the account, line 266.
serviceAccountName(sa) == DisplayName \o "-" \o sa.id

\* Variant: each account is bound and attached right after its creation.
AfterCreate_Interleaved == EnterAccount(i)

\* The first loop moves past account i; after the last account the second
\* loop starts (lines 264, 276-279).
AfterCreate ==
    IF i + 1 > Len(ServiceAccounts)
       THEN EnterAccount(1)
       ELSE i' = i + 1 /\ UNCHANGED <<pc, j, outcome>>

\* Pass 1, lines 264-276.
SACreate ==
    /\ pc = "sa_create"
    /\ LET sa == ServiceAccounts[i]
       IN  \E r \in ClientCreateServiceAccount(cloud, serviceAccountID(sa)) :
             /\ calls' = Append(calls,
                   Call("createServiceAccount", serviceAccountID(sa),
                        serviceAccountName(sa), r))
             /\ cloud' = IF r.err = NoError
                            THEN [cloud EXCEPT !.accounts = @ \cup {serviceAccountID(sa)}]
                            ELSE cloud
             /\ IF CreateServiceAccountErr(r.err, TRUE) # NoError
                   THEN /\ Finish(Outcome("fatal", "sa", "create"))
                        /\ UNCHANGED <<logs, i, j>>
                   ELSE /\ logs' = Append(logs, Log("sa_created", sa.id, ""))
                        /\ AfterCreate
    /\ UNCHANGED <<cfg, cloud0, run, prev, dryRun, backendCalls, steps>>
    /\ UNCHANGED updateVars

\* Variant: custom roles are bound like predefined ones.
IsPredefined_Always(role) == TRUE

\* The test of line 284: custom roles are not bound.
IsPredefined(role) == role.predefined

\* Variant: a failed bind is logged and the loop goes on.
BindFailed_Continue ==
    /\ AfterRole
    /\ UNCHANGED cloud

\* Variant: a failed bind is tried again.
BindFailed_Retry == UNCHANGED <<cloud, pc, i, j, outcome>>

\* BindRole returned an error, lines 289-291.
BindFailed ==
    /\ Finish(Outcome("panic", "sa", "bind"))
    /\ UNCHANGED <<cloud, i, j>>

\* Pass 2, lines 283-292: a predefined role is bound.
SABindRole ==
    /\ pc = "sa_bind"
    /\ LET sa == ServiceAccounts[i]
           role == sa.roles[j]
       IN  /\ IsPredefined(role)
           /\ \E r \in BindRole(cloud, sa.id) :
                 /\ calls' = Append(calls, Call("bindRole", sa.id, fmtRoleResourceId(role), r))
                 /\ IF r.err # NoError
                       THEN BindFailed
                       ELSE /\ cloud' = [cloud EXCEPT !.bindings =
                                            @ \cup {<<sa.id, fmtRoleResourceId(role)>>}]
                            /\ AfterRole
    /\ UNCHANGED <<cfg, cloud0, run, prev, dryRun, backendCalls, steps, logs>>
    /\ UNCHANGED updateVars

\* Pass 2, lines 284-287: a custom role is skipped.
SASkipRole ==
    /\ pc = "sa_bind"
    /\ LET sa == ServiceAccounts[i]
           role == sa.roles[j]
       IN  /\ ~IsPredefined(role)
           /\ logs' = Append(logs, Log("skip_custom_role", sa.id, role.id))
           /\ AfterRole
    /\ UNCHANGED <<cfg, cloud, cloud0, run, prev, dryRun, calls, backendCalls, steps>>
    /\ UNCHANGED updateVars

\* Variant: the switch has no case for "wif".
AccessBranch_NoWifCase(method) ==
    CASE method = "impersonate" -> "impersonate"
      [] OTHER -> "default"

\* Variant: the default case attaches the workload identity pool.
AccessBranch_UnknownAttaches(method) ==
    CASE method = "impersonate" -> "impersonate"
      [] OTHER -> "wif"

\* Variant: the two cases of the switch are exchanged.
AccessBranch_Swapped(method) ==
    CASE method = "impersonate" -> "wif"
      [] method = "wif" -> "impersonate"
      [] OTHER -> "default"

\* The switch of lines 296-307 on serviceAccount.AccessMethod.
AccessBranch(method) ==
    CASE method = "impersonate" -> "impersonate"
      [] method = "wif" -> "wif"
      [] OTHER -> "default"

\* Pass 2, lines 295-308.
SAAttach ==
    /\ pc = "sa_attach"
    /\ LET sa == ServiceAccounts[i]
       IN  CASE AccessBranch(sa.accessMethod) = "impersonate" ->
                  \E r \in AttachImpersonator(cloud, sa.id) :
                     /\ calls' = Append(calls,
                           Call("attachImpersonator", sa.id, impersonatorServiceAccount, r))
                     /\ IF r.err # NoError
                           THEN /\ Finish(Outcome("panic", "sa", "attach"))
                                /\ UNCHANGED <<cloud, logs, i, j>>
                           ELSE /\ cloud' = [cloud EXCEPT !.grants =
                                                @ \cup {<<sa.id, "impersonate">>}]
                                /\ logs' = Append(logs, Log("access_granted", sa.id, ""))
                                /\ EnterAccount(i + 1)
             [] AccessBranch(sa.accessMethod) = "wif" ->
                  \E r \in AttachWorkloadIdentityPool(cloud, sa.id) :
                     /\ calls' = Append(calls, Call("attachFederation", sa.id, PoolId, r))
                     /\ IF r.err # NoError
                           THEN /\ Finish(Outcome("panic", "sa", "attach"))
                                /\ UNCHANGED <<cloud, logs, i, j>>
                           ELSE /\ cloud' = [cloud EXCEPT !.grants =
                                                @ \cup {<<sa.id, "wif">>}]
                                /\ logs' = Append(logs, Log("access_granted", sa.id, ""))
                                /\ EnterAccount(i + 1)
             [] OTHER ->
                  /\ logs' = logs \o << Log("warn_access_type", sa.id, sa.accessMethod),
                                        Log("access_granted", sa.id, "") >>
                  /\ EnterAccount(i + 1)
                  /\ UNCHANGED <<cloud, calls>>
    /\ UNCHANGED <<cfg, cloud0, run, prev, dryRun, backendCalls, steps>>
    /\ UNCHANGED updateVars

Next ==
    \/ Start
    \/ CreateWifConfig
    \/ PoolProbe
    \/ PoolCreate
    \/ PoolUndelete
    \/ ProviderProbe
    \/ ProviderCreate
    \/ SAStep
    \/ SACreate
    \/ SABindRole
    \/ SASkipRole
    \/ SAAttach

Spec == Init /\ [][Next]_vars

(***************************************************************************)
(* updateWorkloadIdentityConfigurationCmd                                  *)
(*                                                                         *)
(* The backend holds WIF configurations with unique ids; display names     *)
(* may repeat and may equal another configuration's id.                    *)
(***************************************************************************)
ConfigIds == {"c1", "c2", "c3"}

ConfigNames == {"alpha", "beta", "c1"}

Keys == {"c1", "c2", "alpha", "zeta"}

Stores ==
    UNION { { { [id |-> c, display_name |-> f[c]] : c \in ids } : f \in [ids -> ConfigNames] } :
            ids \in SUBSET ConfigIds }

\* The search "id = '<key>' or display_name = '<key>'" of lines 69-72.
Matches(st, k) == { c \in st : c.id = k \/ c.display_name = k }

\* collection.List().Search(query).Page(1).Size(1).Send(): an error, or the
\* total number of matches with the first page of them.
ListResponses(st, k) ==
    { [err |-> TRUE, total |-> 0, items |-> <<>>] }
        \cup (IF Matches(st, k) = {}
                 THEN { [err |-> FALSE, total |-> 0, items |-> <<>>] }
                 ELSE { [err |-> FALSE, total |-> Cardinality(Matches(st, k)),
                         items |-> <<c>>] : c \in Matches(st, k) })

\* Variant: with several matches the first one is returned.
findWifConfig_PickFirst(response) ==
    IF response.err
       THEN [err |-> "list_failed", id |-> ""]
       ELSE IF response.total = 0
               THEN [err |-> "not_found", id |-> ""]
               ELSE [err |-> "", id |-> response.items[1].id]

\* findWifConfig, lines 74-84: the id of the configuration found, or an error.
findWifConfig(response) ==
    IF response.err
       THEN [err |-> "list_failed", id |-> ""]
       ELSE IF response.total = 0
               THEN [err |-> "not_found", id |-> ""]
               ELSE IF response.total > 1
                       THEN [err |-> "ambiguous", id |-> ""]
                       ELSE [err |-> "", id |-> response.items[1].id]

CreateIdle ==
    /\ cfg = <<>>
    /\ cloud = [pool |-> "ABSENT", provider |-> "ABSENT", issuer |-> "",
                accounts |-> {}, bindings |-> {}, grants |-> {}]
    /\ cloud0 = cloud
    /\ run = "none"
    /\ prev = [outcome |-> NoRun, dryRun |-> FALSE]
    /\ dryRun = FALSE
    /\ pc = "off"
    /\ i = 0
    /\ j = 0
    /\ calls = <<>>
    /\ backendCalls = 0
    /\ steps = <<>>
    /\ logs = <<>>
    /\ outcome = NoRun

InitUpdate ==
    /\ CreateIdle
    /\ store \in Stores
    /\ key \in Keys
    /\ upc = "start"
    /\ found = ""
    /\ updates = <<>>
    /\ uresult = "none"

\* ocm.NewConnection().Build(), lines 41-45.
UpdateConnect ==
    /\ upc = "start"
    /\ \E ok \in BOOLEAN :
          IF ok
             THEN upc' = "find" /\ UNCHANGED uresult
             ELSE upc' = "done" /\ uresult' = "failed to create OCM connection"
    /\ UNCHANGED <<store, key, found, updates>>
    /\ UNCHANGED createVars

\* Lines 47-51.
UpdateFind ==
    /\ upc = "find"
    /\ \E response \in ListResponses(store, key) :
          LET res == findWifConfig(response)
          IN  IF res.err # ""
                 THEN /\ upc' = "done"
                      /\ uresult' = "failed to get wif-config"
                      /\ UNCHANGED found
                 ELSE /\ upc' = "send"
                      /\ found' = res.id
                      /\ UNCHANGED uresult
    /\ UNCHANGED <<store, key, updates>>
    /\ UNCHANGED createVars

\* Lines 53-62.
UpdateSend ==
    /\ upc = "send"
    /\ updates' = Append(updates, found)
    /\ upc' = "done"
    /\ \E ok \in BOOLEAN :
          uresult' = IF ok THEN "nil" ELSE "failed to update wif-config"
    /\ UNCHANGED <<store, key, found>>
    /\ UNCHANGED createVars

NextUpdate ==
    \/ UpdateConnect
    \/ UpdateFind
    \/ UpdateSend

SpecUpdate == InitUpdate /\ [][NextUpdate]_vars

(***************************************************************************)
(* Vocabulary of the properties.                                           *)
(***************************************************************************)
NumCalls(op) == Cardinality({ k \in DOMAIN calls : calls[k].op = op })

HasLog(msg) == \E k \in DOMAIN logs : logs[k].msg = msg

Probes == {"getPool", "getProvider"}

Mutations == {"createPool", "undeletePool", "createProvider", "createServiceAccount",
              "bindRole", "attachImpersonator", "attachFederation"}

\* A probe answered "404, Requested entity was not found".
ProbedNotFound(c) ==
    /\ c.op \in Probes
    /\ c.err.kind = "googleapi"
    /\ c.err.code = 404
    /\ Contains(c.err.msg, <<"Requested", "entity", "was", "not", "found">>)

\* A probe that read the resource, in a state other than DELETED.
ProbedActive(c) == c.op \in Probes /\ c.err = NoError /\ c.state # "DELETED"

\* A probe that read the resource in state DELETED.
ProbedSoftDeleted(c) == c.op \in Probes /\ c.err = NoError /\ c.state = "DELETED"

\* A probe that failed otherwise.
ProbedOtherError(c) == c.op \in Probes /\ c.err # NoError /\ ~ProbedNotFound(c)

InRun == run # "none" /\ pc # "off"

\* createWorkloadIdentityPool has returned, and returned nil.
PoolReturned == (\E k \in DOMAIN steps : steps[k] = "pool")
                    /\ pc \notin {"pool_create", "pool_undelete"}

PoolSucceeded == PoolReturned /\ ~(outcome.kind = "fatal" /\ outcome.step = "pool")

\* C1: in a non-dry-run invocation of the pool reconciler, a probe classified
\* notFound is followed by exactly one createPool call and no undeletePool
\* call, and when that create succeeds the pool is reported created and the
\* reconciler returns success; a probe classified active is followed by no
\* createPool or undeletePool call and the reconciler returns success.
C1_PoolNotFoundCreatesActiveSkips ==
    (InRun /\ ~dryRun) =>
        \A k \in DOMAIN calls :
            calls[k].op = "getPool" =>
                /\ ProbedNotFound(calls[k]) =>
                      /\ NumCalls("undeletePool") = 0
                      /\ NumCalls("createPool") = (IF pc = "pool_create" THEN 0 ELSE 1)
                      /\ (\E m \in DOMAIN calls :
                              calls[m].op = "createPool" /\ calls[m].err = NoError)
                            => (HasLog("pool_created") /\ PoolSucceeded)
                /\ ProbedActive(calls[k]) =>
                      /\ NumCalls("createPool") = 0
                      /\ NumCalls("undeletePool") = 0
                      /\ ~HasLog("pool_created")
                      /\ PoolSucceeded

C1_Witness ==
    /\ InRun /\ ~dryRun
    /\ pc = "provider"
    /\ Len(calls) = 2
    /\ ProbedNotFound(calls[1])
    /\ calls[2].op = "createPool" /\ calls[2].err = NoError
    /\ cloud.pool = "ACTIVE" /\ cloud0.pool = "ABSENT"

\* C2: in a non-dry-run invocation of the pool reconciler, a probe that reads
\* the pool in state DELETED is followed by exactly one undeletePool call and
\* never a createPool call; the pool is not reported created, and the
\* reconciler returns success when the undelete succeeds.
C2_SoftDeletedUndeletesOnce ==
    (InRun /\ ~dryRun) =>
        \A k \in DOMAIN calls :
            (calls[k].op = "getPool" /\ ProbedSoftDeleted(calls[k])) =>
                /\ NumCalls("createPool") = 0
                /\ NumCalls("undeletePool") = (IF pc = "pool_undelete" THEN 0 ELSE 1)
                /\ ~HasLog("pool_created")
                /\ (\E m \in DOMAIN calls :
                        calls[m].op = "undeletePool" /\ calls[m].err = NoError)
                      => PoolSucceeded

C2_Witness ==
    /\ InRun /\ ~dryRun
    /\ pc = "provider"
    /\ Len(calls) = 2
    /\ ProbedSoftDeleted(calls[1])
    /\ calls[2].op = "undeletePool" /\ calls[2].err = NoError
    /\ cloud.pool = "ACTIVE" /\ cloud0.pool = "DELETED"

\* The step a cloud call belongs to: 1 pool, 2 provider, 3 service accounts.
StepOf(op) ==
    CASE op \in {"getPool", "createPool", "undeletePool"} -> 1
      [] op \in {"getProvider", "createProvider"} -> 2
      [] OTHER -> 3

StepName(n) == <<"pool", "provider", "sa">>[n]

\* A cloud call that failed: not a probe answered notFound, and not a
\* createServiceAccount answered already-exists.
FailedCall(c) ==
    /\ c.err # NoError
    /\ ~ProbedNotFound(c)
    /\ ~(c.op = "createServiceAccount" /\ c.err = ApiError("AlreadyExists"))

IsPrefix(s, t) == Len(s) <= Len(t) /\ \A k \in 1..Len(s) : s[k] = t[k]

\* The steps run in the order pool, provider, service accounts, and so do
\* their cloud calls; a failed call is the last call of the run.
StepsInOrderAndStopAtFailure ==
    /\ IsPrefix(steps, <<"pool", "provider", "sa">>)
    /\ \A k, m \in DOMAIN calls : k < m => StepOf(calls[k].op) <= StepOf(calls[m].op)
    /\ \A k \in DOMAIN calls :
          FailedCall(calls[k]) => (k = Len(calls) /\ pc = "idle")

\* C3: a run executes the pool step, the provider step and the
\* service-account step in that order; at the first failed cloud call the run
\* stops, returns a wrapped error that identifies the step of the failed
\* call, and issues no call of a later step.
C3_OrderedStepsAbortWithWrappedError ==
    InRun =>
        /\ StepsInOrderAndStopAtFailure
        /\ \A k \in DOMAIN calls :
              FailedCall(calls[k]) =>
                  /\ outcome.kind = "fatal"
                  /\ outcome.step = StepName(StepOf(calls[k].op))

\* C4: createPool (createProvider) is issued only after the probe of that
\* resource in the same run failed with code 404 and the entity-not-found
\* message; any other probe error is followed by no create or undelete call
\* for that resource and is returned as the reconciler's error.
C4_CreateOnlyAfterEntityNotFound ==
    InRun =>
        /\ \A k \in DOMAIN calls :
              calls[k].op = "createPool" =>
                  \E m \in 1..(k - 1) : calls[m].op = "getPool" /\ ProbedNotFound(calls[m])
        /\ \A k \in DOMAIN calls :
              calls[k].op = "createProvider" =>
                  \E m \in 1..(k - 1) : calls[m].op = "getProvider" /\ ProbedNotFound(calls[m])
        /\ \A k \in DOMAIN calls :
              (calls[k].op = "getPool" /\ ProbedOtherError(calls[k])) =>
                  /\ NumCalls("createPool") = 0
                  /\ NumCalls("undeletePool") = 0
                  /\ outcome = Outcome("fatal", "pool", "check")
        /\ \A k \in DOMAIN calls :
              (calls[k].op = "getProvider" /\ ProbedOtherError(calls[k])) =>
                  /\ NumCalls("createProvider") = 0
                  /\ outcome = Outcome("fatal", "provider", "check")

C4_Witness ==
    /\ InRun
    /\ Len(calls) = 1
    /\ calls[1].op = "getPool"
    /\ calls[1].err = GoogleApiError(404, <<"Method", "not", "found">>)
    /\ outcome = Outcome("fatal", "pool", "check")
    /\ cloud.pool = "ABSENT"

\* The calls of the run that are not existence probes, as <<op, account, argument>>.
IsMutation(c) == c.op \in Mutations

MutationTrace ==
    LET m == SelectSeq(calls, IsMutation)
    IN  [k \in 1..Len(m) |-> <<m[k].op, m[k].acct, m[k].arg>>]

AllCallsSucceeded == \A k \in DOMAIN calls : calls[k].err = NoError \/ ProbedNotFound(calls[k])

ScenarioConfig(method) ==
    << [id |-> "sa1", roles |-> <<[id |-> "viewer", predefined |-> TRUE]>>,
        accessMethod |-> method] >>

ScenarioRun(method) ==
    /\ InRun /\ ~dryRun
    /\ cfg = ScenarioConfig(method)
    /\ outcome = Success
    /\ NumCalls("getPool") = 1 /\ NumCalls("getProvider") = 1
    /\ \A k \in DOMAIN calls : calls[k].op \in Probes => ProbedNotFound(calls[k])
    /\ AllCallsSucceeded

ScenarioTrace ==
    << <<"createPool", PoolId, "ACTIVE">>,
       <<"createProvider", PoolId, "ACTIVE">>,
       <<"createServiceAccount", "sa1", DisplayName \o "-sa1">>,
       <<"bindRole", "sa1", "roles/viewer">>,
       <<"attachFederation", "sa1", PoolId>> >>

\* C5 as stated: with pool and provider probed notFound, every call
\* succeeding and the one account sa1 with role viewer (predefined) and
\* accessMethod "federate", the calls after the probes are exactly
\* createPool, createProvider, createServiceAccount(sa1), bindRole(sa1,
\* viewer), attachFederation(sa1).
C5_Original_FederateScenario ==
    ScenarioRun("federate") => MutationTrace = ScenarioTrace

\* C5 amended: the same scenario with accessMethod "wif", the value the
\* switch of createServiceAccounts attaches the workload identity pool for.
C5_WifScenarioCallSequence ==
    ScenarioRun("wif") => MutationTrace = ScenarioTrace

C5_Witness ==
    /\ ScenarioRun("wif")
    /\ Len(calls) = 7
    /\ cloud.grants = {<<"sa1", "wif">>}

\* The second of two non-dry-run runs, the first of which succeeded.
RerunAfterSuccess ==
    /\ run = "second" /\ pc # "off"
    /\ prev.outcome = Success
    /\ ~prev.dryRun
    /\ ~dryRun

PredefinedRoles(sa) == SelectSeq(sa.roles, LAMBDA r : r.predefined)

NumPredefined ==
    Cardinality(UNION { { <<k, n>> : n \in { m \in 1..Len(cfg[k].roles) :
                                                cfg[k].roles[m].predefined } } :
                        k \in 1..Len(cfg) })

Recognized(method) == method \in {"impersonate", "wif"}

NumRecognized == Cardinality({ k \in 1..Len(cfg) : Recognized(cfg[k].accessMethod) })

\* C6 as stated: on a second run after a successful run, with no
\* intervening change (the probes read the pool and the provider), no
\* resource is added and no reconciler issues a mutation call (each reports
\* skipped).
C6_Original_SecondRunAllSkipped ==
    (RerunAfterSuccess
        /\ \A k \in DOMAIN calls : calls[k].op \in Probes => calls[k].err = NoError) =>
        /\ cloud = cloud0
        /\ \A k \in DOMAIN calls : calls[k].op \notin Mutations

\* C6 amended: on a second run after a successful run, with no intervening
\* change, no resource is added; when the probes read the pool and the
\* provider, no createPool, undeletePool or createProvider call is issued;
\* the service-account step does not skip: no createServiceAccount call
\* creates an account, and a second run that succeeds has issued
\* createServiceAccount for every account, bindRole for every predefined
\* role and an attach call for every account with a recognised method.
C6_SecondRunAddsNothing ==
    RerunAfterSuccess =>
        /\ cloud = cloud0
        /\ (\A k \in DOMAIN calls : calls[k].op \in Probes => calls[k].err = NoError)
              => /\ NumCalls("createPool") = 0
                 /\ NumCalls("undeletePool") = 0
                 /\ NumCalls("createProvider") = 0
        /\ \A k \in DOMAIN calls :
              calls[k].op = "createServiceAccount" => calls[k].err # NoError
        /\ outcome = Success =>
              /\ NumCalls("createServiceAccount") = Len(cfg)
              /\ NumCalls("bindRole") = NumPredefined
              /\ NumCalls("attachImpersonator") + NumCalls("attachFederation") = NumRecognized

C6_Witness ==
    /\ RerunAfterSuccess
    /\ outcome = Success
    /\ Len(cfg) = 2
    /\ NumCalls("createServiceAccount") = 2
    /\ NumCalls("bindRole") >= 2
    /\ NumCalls("attachFederation") >= 1
    /\ NumCalls("createPool") = 0

AllSteps == <<"pool", "provider", "sa">>

\* C7: in dry-run mode, whatever the state of the cloud account and the
\* configuration, no cloud call is issued and the cloud is not changed; the
\* pool, provider and service-account steps run in that order and each
\* returns success, so a run that has entered the pool step ends in success
\* after all three.
C7_DryRunNoMutationAlwaysSuccess ==
    (InRun /\ dryRun) =>
        /\ calls = <<>>
        /\ cloud = cloud0
        /\ pc \in {"idle", "backend", "pool", "provider", "sa"}
        /\ IsPrefix(steps, AllSteps)
        /\ steps # <<>> => outcome \in {Running, Success}
        /\ (pc = "idle" /\ steps # <<>>) => (outcome = Success /\ steps = AllSteps)
        /\ outcome = Success => steps = AllSteps

C7_Witness ==
    /\ InRun /\ dryRun
    /\ outcome = Success
    /\ steps = AllSteps
    /\ cloud.provider = "DELETED"
    /\ cloud.accounts # {}
    /\ Len(cfg) = 2

AccountOf(id) == CHOOSE k \in 1..Len(cfg) : cfg[k].id = id

InPass2 == pc \in {"sa_bind", "sa_attach"}

\* No attach call is ever issued for an account with an unrecognised access
\* method, and when the attach step of an account is reached its predefined
\* roles have been bound.
UnrecognizedNeverAttached ==
    (InRun /\ ~dryRun) =>
        /\ \A k \in DOMAIN calls :
              calls[k].op \in {"attachImpersonator", "attachFederation"} =>
                  Recognized(cfg[AccountOf(calls[k].acct)].accessMethod)
        /\ pc = "sa_attach" =>
              \A n \in 1..Len(PredefinedRoles(cfg[i])) :
                  \E k \in DOMAIN calls :
                      /\ calls[k].op = "bindRole" /\ calls[k].acct = cfg[i].id
                      /\ calls[k].arg = "roles/" \o PredefinedRoles(cfg[i])[n].id
                      /\ calls[k].err = NoError

\* The attach step of an account with an unrecognised access method issues
\* no call, prints the warning, and goes on to the next account (or ends the
\* run in success after the last one).
UnrecognizedStepWarnsAndContinues ==
    (pc = "sa_attach" /\ ~Recognized(cfg[i].accessMethod)) =>
        /\ calls' = calls
        /\ cloud' = cloud
        /\ \E k \in DOMAIN logs' :
              /\ k > Len(logs)
              /\ logs'[k] = Log("warn_access_type", cfg[i].id, cfg[i].accessMethod)
        /\ IF i < Len(cfg)
              THEN i' = i + 1 /\ InPass2' /\ outcome' = Running
              ELSE pc' = "idle" /\ outcome' = Success

\* C8: for a service account whose accessMethod is not recognised, pass 2
\* issues neither attachImpersonator nor attachFederation, records a
\* warning, does not fail the account or the run: the account's roles are
\* still bound and the later accounts are still processed.
C8_UnrecognizedAccessMethodWarnsOnly ==
    [] UnrecognizedNeverAttached /\ [][UnrecognizedStepWarnsAndContinues]_vars

C8_Witness ==
    /\ InRun /\ ~dryRun
    /\ InPass2 /\ i = 2
    /\ ~Recognized(cfg[1].accessMethod)
    /\ logs[Len(logs) - 1] = Log("warn_access_type", "sa1", cfg[1].accessMethod)
    /\ \E k \in DOMAIN calls : calls[k].op = "bindRole" /\ calls[k].acct = "sa1"
    /\ \A k \in DOMAIN calls : calls[k].op \notin {"attachImpersonator", "attachFederation"}

\* Pass 2 has finished the roles of account k / all of account k.
RolesDone(k) ==
    \/ InPass2 /\ k < i
    \/ pc = "sa_attach" /\ k = i
    \/ pc = "idle" /\ outcome = Success

AccountDone(k) ==
    \/ InPass2 /\ k < i
    \/ pc = "idle" /\ outcome = Success

BindTrace(id) ==
    LET b == SelectSeq(calls, LAMBDA c : c.op = "bindRole" /\ c.acct = id)
    IN  [n \in 1..Len(b) |-> b[n].arg]

RoleResources(roles) == [n \in 1..Len(roles) |-> "roles/" \o roles[n].id]

\* C9: no bindRole call is ever issued for a role with predefined=false;
\* the role is skipped with a warning, the predefined roles of the same
\* account are each bound once, in order, and the account's access-method
\* attachment still takes place.
C9_CustomRolesNeverBound ==
    (InRun /\ ~dryRun) =>
        \A k \in 1..Len(cfg) :
            /\ \A n \in 1..Len(cfg[k].roles) :
                  ~cfg[k].roles[n].predefined =>
                      /\ \A c \in DOMAIN calls :
                            ~(/\ calls[c].op = "bindRole"
                              /\ calls[c].acct = cfg[k].id
                              /\ calls[c].arg = "roles/" \o cfg[k].roles[n].id)
                      /\ RolesDone(k) =>
                            \E m \in DOMAIN logs :
                                logs[m] = Log("skip_custom_role", cfg[k].id, cfg[k].roles[n].id)
            /\ RolesDone(k) =>
                  BindTrace(cfg[k].id) = RoleResources(PredefinedRoles(cfg[k]))
            /\ (AccountDone(k) /\ Recognized(cfg[k].accessMethod)) =>
                  \E c \in DOMAIN calls :
                      /\ calls[c].op \in {"attachImpersonator", "attachFederation"}
                      /\ calls[c].acct = cfg[k].id

C9_Witness ==
    /\ InRun /\ ~dryRun
    /\ InPass2 /\ i = 2
    /\ cfg[1].roles = <<RoleViewer, RoleCustom, RoleEditor>>
    /\ BindTrace("sa1") = <<"roles/viewer", "roles/editor">>
    /\ \E m \in DOMAIN logs : logs[m] = Log("skip_custom_role", "sa1", "custom")
    /\ \E c \in DOMAIN calls : calls[c].op = "attachImpersonator" /\ calls[c].acct = "sa1"

UpdateActive == upc # "off"

\* C10: findWifConfig returns a configuration only when exactly one
\* configuration matches the key by id or display name, and then that one;
\* with no match or with several it returns an error, and the update
\* command then sends no Update request; the update command issues no cloud
\* call.
C10_FindRequiresExactlyOneMatch ==
    UpdateActive =>
        /\ found # "" =>
              /\ Cardinality(Matches(store, key)) = 1
              /\ \E c \in Matches(store, key) : c.id = found
        /\ (upc \in {"send", "done"} /\ Cardinality(Matches(store, key)) # 1) =>
              /\ upc = "done"
              /\ found = ""
              /\ uresult \in {"failed to create OCM connection", "failed to get wif-config"}
              /\ updates = <<>>
        /\ updates # <<>> => updates = <<found>>
        /\ calls = <<>>
        /\ cloud = cloud0

C10_Witness ==
    /\ UpdateActive
    /\ upc = "done"
    /\ Cardinality(Matches(store, key)) = 2
    /\ uresult = "failed to get wif-config"
    /\ updates = <<>>

Pass2Ops == {"bindRole", "attachImpersonator", "attachFederation"}

AlreadyExists == [kind |-> "apierror", code |-> 0, grpc |-> "AlreadyExists", msg |-> <<>>]

\* C11: in pass 1 a createServiceAccount call answered already-exists counts
\* as success and the pass goes on with the next account; a call that fails
\* otherwise ends the run in failure at that point: it is the last call, no
\* bindRole or attach call has been issued, and the accounts created before
\* it are still there.
C11_CreateToleratesOnlyAlreadyExists ==
    (InRun /\ ~dryRun) =>
        \A k \in DOMAIN calls :
            calls[k].op = "createServiceAccount" =>
                LET n == AccountOf(calls[k].acct)
                IN  /\ calls[k].err = AlreadyExists =>
                          /\ \E m \in DOMAIN logs : logs[m] = Log("sa_created", calls[k].acct, "")
                          /\ outcome # Outcome("fatal", "sa", "create") \/ k < Len(calls)
                          /\ k = Len(calls) =>
                                IF n < Len(cfg)
                                   THEN pc = "sa_create" /\ i = n + 1
                                   ELSE InPass2 \/ (pc = "idle" /\ outcome = Success)
                    /\ (calls[k].err # NoError /\ calls[k].err # AlreadyExists) =>
                          /\ k = Len(calls)
                          /\ pc = "idle"
                          /\ outcome = Outcome("fatal", "sa", "create")
                          /\ NumCalls("createServiceAccount") = n
                          /\ \A m \in DOMAIN calls : calls[m].op \notin Pass2Ops
                          /\ cloud0.accounts \subseteq cloud.accounts
                          /\ \A m \in 1..(k - 1) :
                                (calls[m].op = "createServiceAccount" /\ calls[m].err = NoError)
                                    => calls[m].acct \in cloud.accounts

C11_Witness ==
    /\ InRun /\ ~dryRun
    /\ Len(cfg) = 2
    /\ pc = "idle"
    /\ outcome = Outcome("fatal", "sa", "create")
    /\ \E k \in DOMAIN calls :
          /\ k + 1 = Len(calls)
          /\ calls[k].op = "createServiceAccount" /\ calls[k].acct = "sa1"
          /\ calls[k].err = AlreadyExists
          /\ calls[k + 1].op = "createServiceAccount" /\ calls[k + 1].acct = "sa2"
          /\ calls[k + 1].err.grpc = "PermissionDenied"
    /\ cloud.accounts = {"sa1"}

\* C12: the service-account step runs in two passes that do not interleave:
\* before the first bindRole or attach call of any account, the
\* createServiceAccount call of every account of the list has been issued
\* and answered, and none is issued afterwards.
C12_CreateAllBeforeBindOrAttach ==
    (InRun /\ ~dryRun) =>
        \A k \in DOMAIN calls :
            calls[k].op \in Pass2Ops =>
                /\ \A n \in 1..Len(cfg) :
                      \E m \in 1..(k - 1) :
                          /\ calls[m].op = "createServiceAccount"
                          /\ calls[m].acct = cfg[n].id
                /\ \A m \in DOMAIN calls :
                      m > k => calls[m].op # "createServiceAccount"

C12_Witness ==
    /\ InRun /\ ~dryRun
    /\ Len(cfg) = 2
    /\ Len(calls) = 5
    /\ calls[3].op = "createServiceAccount" /\ calls[3].acct = "sa1"
    /\ calls[4].op = "createServiceAccount" /\ calls[4].acct = "sa2"
    /\ calls[5].op = "bindRole" /\ calls[5].acct = "sa1"

\* C13: in pass 2 the first bindRole, attachImpersonator or attachFederation
\* call that fails ends the whole run in failure at once: it is the last
\* cloud call of the run, so neither the remaining roles or the attachment of
\* the same account nor any remaining account gets a call.
C13_FirstPass2FailureIsFatal ==
    InRun =>
        \A k \in DOMAIN calls :
            (calls[k].op \in Pass2Ops /\ calls[k].err # NoError) =>
                /\ k = Len(calls)
                /\ pc = "idle"
                /\ outcome.kind \notin {"running", "ok"}
                /\ outcome.step = "sa"

C13_Witness ==
    /\ InRun /\ ~dryRun
    /\ Len(cfg) = 2
    /\ cfg[1].roles = <<RoleViewer, RoleCustom, RoleEditor>>
    /\ cfg[1].accessMethod = "impersonate"
    /\ pc = "idle"
    /\ Len(calls) > 0
    /\ calls[Len(calls)].op = "bindRole"
    /\ calls[Len(calls)].arg = "roles/viewer"
    /\ calls[Len(calls)].err # NoError
    /\ NumCalls("bindRole") = 1
    /\ NumCalls("attachImpersonator") = 0

\* Account n + 1 has a role to bind and an access method to attach.
NextAccountHasWork(n) ==
    /\ n < Len(cfg)
    /\ Len(PredefinedRoles(cfg[n + 1])) > 0
    /\ Recognized(cfg[n + 1].accessMethod)

FailedBindOf(n) ==
    \E k \in DOMAIN calls :
        calls[k].op = "bindRole" /\ calls[k].acct = cfg[n].id /\ calls[k].err # NoError

\* C14 as stated: when a bindRole call of one account has failed, the run,
\* once over, has still attempted the bind and attach calls of the next
\* account, and is recorded as failed.
C14_Original_NextAccountStillAttempted ==
    (InRun /\ pc = "idle") =>
        \A n \in 1..Len(cfg) :
            (FailedBindOf(n) /\ NextAccountHasWork(n)) =>
                /\ \E m \in DOMAIN calls :
                      calls[m].op \in Pass2Ops /\ calls[m].acct = cfg[n + 1].id
                /\ outcome.kind # "ok"

\* C14 amended: the accounts of pass 2 are not processed independently: when
\* a bindRole call of one account has failed, no attach call of that account
\* and no bind or attach call of any later account is issued, and the run
\* has failed.
C14_FailedBindStopsLaterAccounts ==
    InRun =>
        \A n \in 1..Len(cfg) :
            FailedBindOf(n) =>
                /\ \A m \in DOMAIN calls :
                      calls[m].op \in Pass2Ops => AccountOf(calls[m].acct) <= n
                /\ \A m \in DOMAIN calls :
                      calls[m].op \in {"attachImpersonator", "attachFederation"}
                          => AccountOf(calls[m].acct) < n
                /\ outcome.kind = "panic"

C14_Witness ==
    /\ InRun /\ ~dryRun
    /\ pc = "idle"
    /\ Len(cfg) = 2
    /\ FailedBindOf(1)
    /\ NextAccountHasWork(1)
    /\ \A m \in DOMAIN calls : calls[m].op \in Pass2Ops => calls[m].acct = "sa1"

\* createWorkloadIdentityProvider has returned, and returned nil.
ProviderSucceeded ==
    /\ \E k \in DOMAIN steps : steps[k] = "provider"
    /\ pc # "provider_create"
    /\ ~(outcome.kind = "fatal" /\ outcome.step = "provider")

\* C15: in a non-dry-run invocation of the provider reconciler, a probe
\* classified notFound is followed by exactly one createProvider call, which
\* carries the issuer URL, the JWKS, the allowed audience and the mapping of
\* the token's subject claim to the cloud subject; a probe that reads the
\* provider, in whatever state and with whatever issuer, is followed by no
\* mutation of the provider, and the reconciler returns success.
C15_ProviderCreatedOnlyWhenNotFound ==
    (InRun /\ ~dryRun) =>
        \A k \in DOMAIN calls :
            calls[k].op = "getProvider" =>
                /\ ProbedNotFound(calls[k]) =>
                      /\ NumCalls("createProvider") = (IF pc = "provider_create" THEN 0 ELSE 1)
                      /\ \A m \in DOMAIN calls :
                            calls[m].op = "createProvider" =>
                                /\ m = k + 1
                                /\ calls[m].body.Oidc.IssuerUri = "https://issuer.example/wif1"
                                /\ calls[m].body.Oidc.JwksJson = "jwks-wif1"
                                /\ calls[m].body.Oidc.AllowedAudiences = <<"openshift">>
                                /\ calls[m].body.AttributeMapping
                                      = {<<"google.subject", "assertion.sub">>}
                /\ calls[k].err = NoError =>
                      /\ NumCalls("createProvider") = 0
                      /\ \A m \in DOMAIN calls : StepOf(calls[m].op) = 2 => m = k
                      /\ cloud.provider = cloud0.provider
                      /\ cloud.issuer = cloud0.issuer
                      /\ ProviderSucceeded

C15_Witness ==
    /\ InRun /\ ~dryRun
    /\ pc = "sa"
    /\ Len(calls) > 0
    /\ calls[Len(calls)].op = "getProvider"
    /\ calls[Len(calls)].err = NoError
    /\ cloud.provider = "ACTIVE"
    /\ cloud.issuer = OtherIssuerUrl

AttachCalls(op, id) ==
    { k \in DOMAIN calls : calls[k].op = op /\ calls[k].acct = id }

SuccessfulRun == InRun /\ ~dryRun /\ pc = "idle" /\ outcome = Success

\* The attachment calls an account with access method `method` receives in a
\* successful run, when the federating access method is spelled `federating`.
AttachmentsFollow(federating) ==
    SuccessfulRun =>
        \A n \in 1..Len(cfg) :
            LET imp == AttachCalls("attachImpersonator", cfg[n].id)
                fed == AttachCalls("attachFederation", cfg[n].id)
            IN  /\ Cardinality(imp) + Cardinality(fed) <= 1
                /\ cfg[n].accessMethod = "impersonate" =>
                      /\ Cardinality(imp) = 1 /\ fed = {}
                      /\ \A k \in imp :
                            calls[k].arg = "projects/sda-ccs-3/serviceAccounts/osd-impersonator@sda-ccs-3.iam.gserviceaccount.com"
                /\ cfg[n].accessMethod = federating =>
                      /\ Cardinality(fed) = 1 /\ imp = {}
                      /\ \A k \in fed : calls[k].arg = PoolId

\* C16 as stated: the federating access method is "federate".
C16_Original_FederateAttaches == AttachmentsFollow("federate")

\* C16: in every successful non-dry-run run each service account receives at
\* most one attachment call, chosen by the switch on its accessMethod:
\* "impersonate" yields exactly one attachImpersonator call with the fixed
\* impersonator principal and no attachFederation call; "wif" yields exactly
\* one attachFederation call with the configuration's pool and no
\* attachImpersonator call; any other value yields no attachment call; no
\* account receives both kinds.
C16_AttachmentFollowsAccessMethod ==
    /\ AttachmentsFollow("wif")
    /\ SuccessfulRun =>
          \A n \in 1..Len(cfg) :
              ~Recognized(cfg[n].accessMethod) =>
                  /\ AttachCalls("attachImpersonator", cfg[n].id) = {}
                  /\ AttachCalls("attachFederation", cfg[n].id) = {}

C16_Witness ==
    /\ SuccessfulRun
    /\ Len(cfg) = 2
    /\ cfg[1].accessMethod = "impersonate"
    /\ cfg[2].accessMethod = "wif"
    /\ Cardinality(AttachCalls("attachImpersonator", cfg[1].id)) = 1
    /\ Cardinality(AttachCalls("attachFederation", cfg[2].id)) = 1

Aborted(o) == o.kind \in {"fatal", "panic"}

RerunAfterAbort ==
    /\ run = "second" /\ pc # "off"
    /\ Aborted(prev.outcome)
    /\ ~dryRun

\* Nothing the account held when the run started has been taken away.
NothingUndone ==
    /\ cloud0.pool = "ACTIVE" => cloud.pool = "ACTIVE"
    /\ cloud0.pool # "ABSENT" => cloud.pool # "ABSENT"
    /\ cloud0.provider # "ABSENT" => cloud.provider = cloud0.provider
    /\ cloud0.accounts \subseteq cloud.accounts
    /\ cloud0.bindings \subseteq cloud.bindings
    /\ cloud0.grants \subseteq cloud.grants

FullyProvisioned ==
    /\ cloud.pool = "ACTIVE"
    /\ cloud.provider # "ABSENT"
    /\ \A n \in 1..Len(cfg) :
          /\ cfg[n].id \in cloud.accounts
          /\ \A m \in 1..Len(cfg[n].roles) :
                cfg[n].roles[m].predefined =>
                    <<cfg[n].id, "roles/" \o cfg[n].roles[m].id>> \in cloud.bindings
          /\ Recognized(cfg[n].accessMethod) =>
                <<cfg[n].id, cfg[n].accessMethod>> \in cloud.grants

\* C17: no run, aborted or not, issues a call that deletes or undoes a
\* resource, and what the account held when the run started is still there;
\* a run that follows an aborted run with the same configuration, gets its
\* client and its configuration, and in which no cloud call fails (an
\* already-exists answer to createServiceAccount is not a failure) ends in
\* success, with the pool active, the provider present, every service
\* account present, every predefined role bound and every recognised access
\* method attached.
C17_RerunAfterAbortCompletes ==
    /\ InRun =>
          /\ \A k \in DOMAIN calls : calls[k].op \in Probes \cup Mutations
          /\ NothingUndone
    /\ (RerunAfterAbort /\ pc = "idle") =>
          /\ (outcome.step \notin {"client", "backend"}
                /\ \A k \in DOMAIN calls : ~FailedCall(calls[k]))
                => outcome = Success
          /\ outcome = Success => FullyProvisioned

\* The first run was aborted in pass 2 with accounts created; the second
\* run meets them and completes.
C17_Witness ==
    /\ RerunAfterAbort
    /\ prev.outcome.kind = "panic"
    /\ cloud0.accounts # {}
    /\ pc = "idle"
    /\ outcome = Success
    /\ \E k \in DOMAIN calls : calls[k].err = AlreadyExists
    /\ FullyProvisioned

\* The pass-2 calls of one account, in the order of lines 279-308.
AccountPlan(sa) ==
    LET roles == PredefinedRoles(sa)
    IN  [m \in 1..Len(roles) |-> <<"bindRole", sa.id, "roles/" \o roles[m].id>>]
            \o (CASE sa.accessMethod = "impersonate" ->
                       << <<"attachImpersonator", sa.id, impersonatorServiceAccount>> >>
                  [] sa.accessMethod = "wif" ->
                       << <<"attachFederation", sa.id, PoolId>> >>
                  [] OTHER -> <<>>)

RECURSIVE Pass2Plan(_)
Pass2Plan(n) ==
    IF n > Len(cfg) THEN <<>> ELSE AccountPlan(cfg[n]) \o Pass2Plan(n + 1)

Pass2Trace ==
    LET t == SelectSeq(calls, LAMBDA c : c.op \in Pass2Ops)
    IN  [k \in 1..Len(t) |-> <<t[k].op, t[k].acct, t[k].arg>>]

Pass2InListOrder ==
    (InRun /\ ~dryRun) =>
        /\ IsPrefix(Pass2Trace, Pass2Plan(1))
        /\ (pc = "idle" /\ outcome = Success) => Pass2Trace = Pass2Plan(1)
        /\ \A k \in DOMAIN calls : k < Len(calls) => ~FailedCall(calls[k])

\* A step issues at most one cloud call, and the call is answered in it.
OneCallAtATime ==
    \/ calls' = calls
    \/ calls' = <<>>
    \/ /\ Len(calls') = Len(calls) + 1
       /\ SubSeq(calls', 1, Len(calls)) = calls
       /\ "err" \in DOMAIN calls'[Len(calls')]

\* C18: pass 2 is strictly sequential in list order: the bindRole calls of an
\* account's predefined roles are issued in role order before the account's
\* attach call, every pass-2 call of account i comes before any pass-2 call
\* of account i+1, each call is issued only after the one before it was
\* answered without failure, and no step has two cloud calls in flight.
C18_Pass2SequentialInListOrder ==
    /\ []Pass2InListOrder
    /\ [][OneCallAtATime]_vars

C18_Witness ==
    /\ InRun /\ ~dryRun
    /\ pc = "idle" /\ outcome = Success
    /\ Len(cfg) = 2
    /\ Len(PredefinedRoles(cfg[1])) = 2
    /\ Len(PredefinedRoles(cfg[2])) = 1
    /\ Recognized(cfg[1].accessMethod)
    /\ Len(Pass2Trace) = 5
    /\ Pass2Trace[3][1] \in {"attachImpersonator", "attachFederation"}
    /\ Pass2Trace[4] = <<"bindRole", cfg[2].id, "roles/viewer">>

CallsOf(ops, id) ==
    Cardinality({ k \in DOMAIN calls : calls[k].op \in ops /\ calls[k].acct = id })

BindsOf(id, resource) ==
    Cardinality({ k \in DOMAIN calls :
                    calls[k].op = "bindRole" /\ calls[k].acct = id
                        /\ calls[k].arg = resource })

\* C19: within one run there is at most one getPool call, one getProvider
\* call, one of createPool/undeletePool, one createProvider call, one
\* createServiceAccount call per account, one bindRole call per account and
\* role and one attach call per account; a call that fails is the last call
\* of the run, which ends in failure.
C19_NoCallIsRetried ==
    InRun =>
        /\ NumCalls("getPool") <= 1
        /\ NumCalls("getProvider") <= 1
        /\ NumCalls("createPool") + NumCalls("undeletePool") <= 1
        /\ NumCalls("createProvider") <= 1
        /\ \A n \in 1..Len(cfg) :
              /\ CallsOf({"createServiceAccount"}, cfg[n].id) <= 1
              /\ CallsOf({"attachImpersonator", "attachFederation"}, cfg[n].id) <= 1
              /\ \A m \in 1..Len(cfg[n].roles) :
                    BindsOf(cfg[n].id, "roles/" \o cfg[n].roles[m].id) <= 1
        /\ \A k \in DOMAIN calls :
              FailedCall(calls[k]) =>
                  /\ k = Len(calls)
                  /\ pc = "idle"
                  /\ Aborted(outcome)

\* A bind failed after other calls of every kind had been issued once.
C19_Witness ==
    /\ InRun /\ ~dryRun
    /\ pc = "idle"
    /\ Aborted(outcome)
    /\ Len(calls) > 0
    /\ calls[Len(calls)].op = "bindRole"
    /\ calls[Len(calls)].err = CallFailed
    /\ calls[Len(calls)].acct = "sa2"
    /\ CallsOf({"attachImpersonator", "attachFederation"}, "sa1") = 1
    /\ BindsOf("sa2", calls[Len(calls)].arg) = 1

CreateTrace ==
    SelectSeq(calls, LAMBDA c : c.op = "createServiceAccount")

\* C20 as stated: the identifier under which the n-th account of the list is
\* created is the display name, "-", and the account's id.
C20_Original_AccountIdIsPrefixed ==
    (InRun /\ ~dryRun) =>
        \A n \in DOMAIN CreateTrace :
            CreateTrace[n].acct = "wif1" \o "-" \o cfg[n].id

\* C20: in pass 1 the n-th createServiceAccount call creates (or finds) the
\* account under the identifier s.id of the n-th service account of the
\* list; the value d + "-" + s.id, d the configuration's display name, is the
\* display name the call gives the account; an account created is held by
\* the cloud under s.id.
C20_AccountIdIsSpecId ==
    (InRun /\ ~dryRun) =>
        /\ Len(CreateTrace) <= Len(cfg)
        /\ \A n \in DOMAIN CreateTrace :
              /\ CreateTrace[n].acct = cfg[n].id
              /\ CreateTrace[n].arg = "wif1" \o "-" \o cfg[n].id
              /\ CreateTrace[n].arg # CreateTrace[n].acct
              /\ CreateTrace[n].err = NoError => cfg[n].id \in cloud.accounts

C20_Witness ==
    /\ InRun /\ ~dryRun
    /\ Len(CreateTrace) = 2
    /\ CreateTrace[1].acct = "sa1" /\ CreateTrace[1].arg = "wif1-sa1"
    /\ CreateTrace[2].acct = "sa2" /\ CreateTrace[2].arg = "wif1-sa2"
    /\ CreateTrace[2].err = NoError
    /\ cloud.accounts = {"sa1", "sa2"}

RunEnded == InRun /\ pc = "idle"

\* After the backend call nothing but its failure keeps the run from the
\* cloud steps; before it nothing of the cloud has been called.
BackendBeforeCloud ==
    InRun =>
        /\ backendCalls <= 1
        /\ Len(calls) > 0 => backendCalls = 1
        /\ Len(steps) > 0 => backendCalls = 1
        /\ (outcome.kind = "fatal" /\ outcome.step \in {"client", "backend"}) =>
              /\ calls = <<>>
              /\ steps = <<>>
        /\ (pc = "idle" /\ outcome = Success) => backendCalls = 1

\* C21 as stated: every run, once ended, has called the backend exactly once.
C21_Original_EveryRunCallsBackendOnce ==
    /\ BackendBeforeCloud
    /\ RunEnded => backendCalls = 1

\* C21: a run calls the backend createWifConfig at most once, and exactly
\* once when the cloud client and the backend client could both be made; the
\* call comes before any cloud call and is made in a dry run as in any other
\* run; if it fails, or is never reached, the run ends with no cloud call,
\* probe or mutation.
C21_BackendCalledOnceBeforeCloud ==
    /\ BackendBeforeCloud
    /\ RunEnded =>
          backendCalls = (IF outcome.kind = "fatal"
                             /\ (outcome.step = "client"
                                   \/ (outcome.step = "backend" /\ outcome.why = "client"))
                             THEN 0 ELSE 1)

\* A dry run has ended in success: the backend holds a configuration, the
\* cloud was not called.
C21_Witness ==
    /\ RunEnded
    /\ dryRun
    /\ outcome = Success
    /\ backendCalls = 1
    /\ calls = <<>>
    /\ Len(steps) = 3

\* What a dry run reports for account n of the configuration.
AccountReport(sa) ==
    << [msg |-> "would_create_sa", acct |-> sa.id, arg |-> ""],
       [msg |-> "would_bind_roles", acct |-> sa.id, arg |-> ""],
       IF sa.accessMethod = "impersonate"
          THEN [msg |-> "would_attach_impersonator", acct |-> sa.id,
                arg |-> impersonatorServiceAccount]
          ELSE IF sa.accessMethod = "wif"
                  THEN [msg |-> "would_attach_pool", acct |-> sa.id, arg |-> PoolId]
                  ELSE [msg |-> "warn_access_type", acct |-> sa.id,
                        arg |-> sa.accessMethod] >>

RECURSIVE AccountReports(_)
AccountReports(n) ==
    IF n > Len(cfg) THEN <<>> ELSE AccountReport(cfg[n]) \o AccountReports(n + 1)

\* The report of a whole dry run: a function of the configuration alone.
DryRunReport ==
    << [msg |-> "would_create_pool", acct |-> PoolId, arg |-> ""],
       [msg |-> "would_create_provider", acct |-> PoolId, arg |-> ""] >>
        \o AccountReports(1)

\* C22: in dry-run mode the pool, provider and service-account steps issue
\* no cloud call, read calls (getPool, getProvider) included, so what the run
\* reports is at every point a prefix of a report computed from the
\* configuration alone, and a dry run that has entered the pool step ends in
\* success with the whole of that report, whatever the cloud account holds.
C22_DryRunIndependentOfCloud ==
    (InRun /\ dryRun) =>
        /\ NumCalls("getPool") = 0
        /\ NumCalls("getProvider") = 0
        /\ calls = <<>>
        /\ IsPrefix(logs, DryRunReport)
        /\ (pc = "idle" /\ steps # <<>>) =>
              /\ outcome = Success
              /\ logs = DryRunReport

\* A dry run over a cloud account that a first run has provisioned reports
\* the same as over an empty one.
C22_Witness ==
    /\ InRun /\ dryRun
    /\ run = "second"
    /\ prev.outcome = Success /\ ~prev.dryRun
    /\ cloud.pool = "ACTIVE"
    /\ cloud.accounts = {"sa1", "sa2"}
    /\ pc = "idle" /\ outcome = Success
    /\ logs = DryRunReport
    /\ Len(logs) = 8

\* The step a create call belongs to.
CreateStepOf(op) == IF op = "createPool" THEN "pool" ELSE "provider"

\* C23: only createServiceAccount answered already-exists is turned into
\* success.  A createPool or createProvider call that fails, for any reason
\* and also with already-exists after a stale notFound read of a resource
\* that is there, is the last call of the run: the run ends in failure at
\* that step, the steps after it are not entered and the resource is left as
\* it was.  Any other call that was answered with an error and followed by
\* more of the run is a probe read as notFound.
C23_OnlyServiceAccountToleratesExisting ==
    (InRun /\ ~dryRun) =>
        \A k \in DOMAIN calls :
            /\ (calls[k].op \in {"createPool", "createProvider"}
                  /\ calls[k].err # NoError) =>
                    /\ k = Len(calls)
                    /\ pc = "idle"
                    /\ outcome.kind = "fatal"
                    /\ outcome.step = CreateStepOf(calls[k].op)
                    /\ steps[Len(steps)] = CreateStepOf(calls[k].op)
                    /\ cloud.pool = cloud0.pool \/ calls[k].op = "createProvider"
                    /\ cloud.provider = cloud0.provider
            /\ (calls[k].err # NoError /\ (k < Len(calls) \/ ~Aborted(outcome))) =>
                    \/ calls[k].op = "createServiceAccount"
                          /\ calls[k].err.kind = "apierror"
                          /\ calls[k].err.grpc = "AlreadyExists"
                    \/ calls[k].op \in Probes /\ ProbedNotFound(calls[k])
            /\ (calls[k].op = "createServiceAccount"
                  /\ calls[k].err.kind = "apierror"
                  /\ calls[k].err.grpc = "AlreadyExists") =>
                    ~(k = Len(calls) /\ Aborted(outcome))

\* The pool is there, the probe read notFound, the create was answered
\* already-exists, and the run stopped in the pool step.
C23_Witness ==
    /\ InRun /\ ~dryRun
    /\ cloud.pool = "ACTIVE"
    /\ Len(calls) = 2
    /\ calls[1].op = "getPool" /\ ProbedNotFound(calls[1])
    /\ calls[2].op = "createPool"
    /\ calls[2].err.kind = "apierror" /\ calls[2].err.grpc = "AlreadyExists"
    /\ pc = "idle"
    /\ outcome.kind = "fatal" /\ outcome.step = "pool"
    /\ steps = <<"pool">>

====
